---------------------------- MODULE Spec2Model ----------------------------
(***************************************************************************)
(* A model of part1_webscraping/scripts/web_scraper.py: the sequential     *)
(* scraper main() = identify_pages_to_scrape -> identify_articles_to_scrape*)
(* -> extract_article_data -> write_data_to_csv.                           *)
(*                                                                         *)
(* The web site is the environment: three functions from URL to the        *)
(* response a GET of that URL gets at each of the three fetch stages.      *)
(* They are chosen in the initial state and never change during a run.     *)
(* Text is modelled by TLA+ strings, so concatenation, stripping and       *)
(* comparison are computed character by character as Python does.          *)
(***************************************************************************)
EXTENDS Integers, Sequences, FiniteSets, TLC

VARIABLES
    search_pages,        \* site: seed URL -> response of the GET in identify_pages_to_scrape
    listing_pages,       \* site: listing URL -> response of the GET in identify_articles_to_scrape
    article_pages,       \* site: article URL -> response of the GET in extract_article_data
    pc,                  \* the statement of main() that runs next, "done" or "crashed"
    error,               \* the uncaught exception that ended the run, or "none"
    returned,            \* the functions of main() that have returned, in order
    search_idx,          \* position of the for loop over search_urls
    pages_to_scrape,     \* set built by identify_pages_to_scrape (page_urls afterwards)
    page_todo,           \* elements of page_urls the for loop has not visited yet
    articles_to_scrape,  \* set built by identify_articles_to_scrape
    article_titles,      \* set of titles seen by identify_articles_to_scrape
    emitted,             \* history: the <<title, url>> pairs added to articles_to_scrape
    article_todo,        \* elements of articles_to_scrape the for loop has not visited yet
    article_data,        \* list of records built by extract_article_data
    file,                \* content of data/clean/gse_genai_articles.csv written by this run
    metadata_field,      \* argument of a single call of extract_metadata_field
    article_metadata     \* the dict passed to and returned by that call

vars == <<search_pages, listing_pages, article_pages, pc, error, returned, search_idx,
          pages_to_scrape, page_todo, articles_to_scrape, article_titles, emitted,
          article_todo, article_data, file, metadata_field, article_metadata>>

site == <<search_pages, listing_pages, article_pages>>

-----------------------------------------------------------------------------
(* Bounds of the model *)

MaxLinks == 2     \* pagination links on one search page
MaxCards == 2     \* article cards on one listing page
MaxItems == 2     \* div.field__item elements in one field
MaxFields == 2    \* div.field elements on one article page
MaxRecords == 3   \* records handed to write_data_to_csv

SeqsUpTo(S, n) == UNION {[1..k -> S] : k \in 0..n}

Range(s) == {s[i] : i \in 1..Len(s)}

\* select_one() found no element, or the element has no such attribute
NoElem == "<None>"

-----------------------------------------------------------------------------
(* Python strings *)

Whitespace == {" ", "\n", "\t"}

RECURSIVE LStrip(_, _)
LStrip(s, chars) ==
    IF s # "" /\ Head(s) \in chars THEN LStrip(Tail(s), chars) ELSE s

RECURSIVE RStrip(_, _)
RStrip(s, chars) ==
    IF s # "" /\ SubSeq(s, Len(s), Len(s)) \in chars
    THEN RStrip(SubSeq(s, 1, Len(s) - 1), chars)
    ELSE s

\* str.strip(chars)
Strip(s, chars) == RStrip(LStrip(s, chars), chars)

\* Tag.get_text(strip = True) of an element holding one text node
GetTextStripped(s) == Strip(s, Whitespace)

-----------------------------------------------------------------------------
(* Module-level variables of the script *)

repo_base_url == "https://scale.stanford.edu"

k12_query == "?search_api_fulltext=&application%5B42%5D=42&benefits%5B34%5D=34&benefits%5B36%5D=36&benefits%5B35%5D=35"

secondary_query == "?search_api_fulltext=&benefits%5B36%5D=36&benefits%5B35%5D=35&study_design%5B55%5D=55"

teaching_k12_search_url == repo_base_url \o "/genai/repository" \o k12_query

impact_secondary_search_url == repo_base_url \o "/genai/repository" \o secondary_query

search_urls == <<teaching_k12_search_url, impact_secondary_search_url>>

NotFound == [status_code |-> 404]

-----------------------------------------------------------------------------
(* identify_pages_to_scrape *)

\* href attributes of the a.page-link elements a search page can hold; the
\* first one is the query string of the first seed itself
PaginationHrefs == {k12_query, k12_query \o "&page=1", secondary_query \o "&page=1", NoElem}

SearchResponses ==
    {NotFound} \cup
    {[status_code |-> 200, pagination_data |-> l] : l \in SeqsUpTo(PaginationHrefs, MaxLinks)}

\* page_url = repo_base_url + "/genai/repository" + page['href']
PageUrl(href) == repo_base_url \o "/genai/repository" \o href

\* a loop that also keeps the seed of a paginated search
AddPagesAndSeed(pages, search_url, pagination_data) ==
    pages \cup {search_url} \cup {PageUrl(pagination_data[i]) : i \in 1..Len(pagination_data)}

\* the for loop over pagination_data, run to its end
AddPages(pages, search_url, pagination_data) ==
    pages \cup {PageUrl(pagination_data[i]) : i \in 1..Len(pagination_data)}

\* a branch that forgets the seed
AddNoSeed(pages, search_url) == pages

\* the branch taken when pagination_data is empty
AddSeed(pages, search_url) == pages \cup {search_url}

SearchUrl == search_urls[search_idx]

InPagesLoop == pc = "identify_pages_to_scrape" /\ search_idx <= Len(search_urls)

PagesFrame ==
    UNCHANGED <<site, returned, page_todo, articles_to_scrape, article_titles, emitted,
                article_todo, article_data, file, metadata_field, article_metadata>>

\* status_code != 200: warning, continue
SearchPageSkipped ==
    /\ InPagesLoop
    /\ search_pages[SearchUrl].status_code # 200
    /\ search_idx' = search_idx + 1
    /\ UNCHANGED <<pc, error, pages_to_scrape>>
    /\ PagesFrame

\* not pagination_data: the seed is the only page
SearchPageSingle ==
    /\ InPagesLoop
    /\ search_pages[SearchUrl].status_code = 200
    /\ search_pages[SearchUrl].pagination_data = <<>>
    /\ pages_to_scrape' = AddSeed(pages_to_scrape, SearchUrl)
    /\ search_idx' = search_idx + 1
    /\ UNCHANGED <<pc, error>>
    /\ PagesFrame

SearchPagePaginated ==
    /\ InPagesLoop
    /\ search_pages[SearchUrl].status_code = 200
    /\ search_pages[SearchUrl].pagination_data # <<>>
    /\ NoElem \notin Range(search_pages[SearchUrl].pagination_data)
    /\ pages_to_scrape' =
           AddPages(pages_to_scrape, SearchUrl, search_pages[SearchUrl].pagination_data)
    /\ search_idx' = search_idx + 1
    /\ UNCHANGED <<pc, error>>
    /\ PagesFrame

\* the links in front of the first one that has no href attribute
RECURSIVE BeforeBroken(_)
BeforeBroken(pagination_data) ==
    IF pagination_data = <<>> \/ Head(pagination_data) = NoElem
    THEN <<>>
    ELSE <<Head(pagination_data)>> \o BeforeBroken(Tail(pagination_data))

\* page['href'] of a link without href raises KeyError, which nothing catches
SearchPageBroken ==
    /\ InPagesLoop
    /\ search_pages[SearchUrl].status_code = 200
    /\ NoElem \in Range(search_pages[SearchUrl].pagination_data)
    /\ pages_to_scrape' =
           AddPages(pages_to_scrape, SearchUrl,
                    BeforeBroken(search_pages[SearchUrl].pagination_data))
    /\ pc' = "crashed"
    /\ error' = "KeyError: 'href'"
    /\ UNCHANGED search_idx
    /\ PagesFrame

\* return pages_to_scrape; main() hands it to identify_articles_to_scrape
PagesReturn ==
    /\ pc = "identify_pages_to_scrape"
    /\ search_idx > Len(search_urls)
    /\ pc' = "identify_articles_to_scrape"
    /\ returned' = Append(returned, "identify_pages_to_scrape")
    /\ page_todo' = pages_to_scrape
    /\ UNCHANGED <<site, error, search_idx, pages_to_scrape, articles_to_scrape,
                   article_titles, emitted, article_todo, article_data, file,
                   metadata_field, article_metadata>>

NextPages ==
    \/ SearchPageSkipped
    \/ SearchPageSingle
    \/ SearchPagePaginated
    \/ SearchPageBroken
    \/ PagesReturn

NoFile == [columns |-> <<>>, rows |-> <<>>, written |-> FALSE]

\* the state of main() at its first statement, on a given site
Start(sp, lp, ap) ==
    /\ search_pages = sp
    /\ listing_pages = lp
    /\ article_pages = ap
    /\ pc = "identify_pages_to_scrape"
    /\ error = "none"
    /\ returned = <<>>
    /\ search_idx = 1
    /\ pages_to_scrape = {}
    /\ page_todo = {}
    /\ articles_to_scrape = {}
    /\ article_titles = {}
    /\ emitted = {}
    /\ article_todo = {}
    /\ article_data = <<>>
    /\ file = NoFile
    /\ metadata_field = <<>>
    /\ article_metadata = <<>>

InitPages ==
    \E sp \in [Range(search_urls) -> SearchResponses] : Start(sp, <<>>, <<>>)

\* identify_pages_to_scrape(search_urls) on every site
SpecPages == InitPages /\ [][NextPages]_vars

-----------------------------------------------------------------------------
(* identify_articles_to_scrape *)

\* An article card li.col: the text of its a[hreflang='en'] and the href of
\* its first a[href], NoElem where the card has no such element.
Card(title, href) == [title |-> title, href |-> href]

Cards ==
    { Card("Paper A", "/genai/paper-a"),
      Card(" Paper A\n", "/genai/paper-a-copy"),
      Card("Paper B", "/genai/paper-a"),
      Card(NoElem, "/genai/paper-b"),
      Card("Paper B", NoElem) }

ListingResponses ==
    {NotFound} \cup
    {[status_code |-> 200, articles_to_parse |-> l] : l \in SeqsUpTo(Cards, MaxCards)}

\* article_title = article.select_one(...).get_text(strip = True)
CardTitle(card) == GetTextStripped(card.title)

\* article_url = repo_base_url + article_sub_url['href']
ArticleUrl(card) == repo_base_url \o card.href

\* a test that never finds the title
NeverSeen(article_title, titles) == TRUE

\* if article_title not in article_titles
IsNewTitle(article_title, titles) == article_title \notin titles

\* The for loop over articles_to_parse, on the loop state
\* st = [titles, articles, emitted, error]; it stops at the first exception.
RECURSIVE ScanCards(_, _)
ScanCards(cards, st) ==
    IF cards = <<>> THEN st
    ELSE LET card == Head(cards) IN
         IF card.title = NoElem
         THEN [st EXCEPT !.error = "AttributeError: 'NoneType' object has no attribute 'get_text'"]
         ELSE IF ~IsNewTitle(CardTitle(card), st.titles)
         THEN ScanCards(Tail(cards), st)
         ELSE IF card.href = NoElem
         THEN [st EXCEPT !.titles = @ \cup {CardTitle(card)},
                         !.error = "TypeError: 'NoneType' object is not subscriptable"]
         ELSE ScanCards(Tail(cards),
                        [st EXCEPT !.titles = @ \cup {CardTitle(card)},
                                   !.articles = @ \cup {ArticleUrl(card)},
                                   !.emitted = @ \cup {<<CardTitle(card), ArticleUrl(card)>>}])

Scanned(page_url) ==
    ScanCards(listing_pages[page_url].articles_to_parse,
              [titles |-> article_titles, articles |-> articles_to_scrape,
               emitted |-> emitted, error |-> "none"])

InArticlesLoop == pc = "identify_articles_to_scrape" /\ page_todo # {}

ArticlesFrame ==
    UNCHANGED <<site, returned, search_idx, pages_to_scrape, article_todo, article_data,
                file, metadata_field, article_metadata>>

\* status_code != 200: warning, continue
ListingPageSkipped ==
    \E page_url \in page_todo :
        /\ InArticlesLoop
        /\ listing_pages[page_url].status_code # 200
        /\ page_todo' = page_todo \ {page_url}
        /\ UNCHANGED <<pc, error, articles_to_scrape, article_titles, emitted>>
        /\ ArticlesFrame

ListingPageScanned ==
    \E page_url \in page_todo :
        /\ InArticlesLoop
        /\ listing_pages[page_url].status_code = 200
        /\ Scanned(page_url).error = "none"
        /\ page_todo' = page_todo \ {page_url}
        /\ article_titles' = Scanned(page_url).titles
        /\ articles_to_scrape' = Scanned(page_url).articles
        /\ emitted' = Scanned(page_url).emitted
        /\ UNCHANGED <<pc, error>>
        /\ ArticlesFrame

\* a card without title anchor or without a[href]: the exception ends the run
ListingPageBroken ==
    \E page_url \in page_todo :
        /\ InArticlesLoop
        /\ listing_pages[page_url].status_code = 200
        /\ Scanned(page_url).error # "none"
        /\ page_todo' = page_todo \ {page_url}
        /\ article_titles' = Scanned(page_url).titles
        /\ articles_to_scrape' = Scanned(page_url).articles
        /\ emitted' = Scanned(page_url).emitted
        /\ pc' = "crashed"
        /\ error' = Scanned(page_url).error
        /\ ArticlesFrame

\* return articles_to_scrape; main() hands it to extract_article_data
ArticlesReturn ==
    /\ pc = "identify_articles_to_scrape"
    /\ page_todo = {}
    /\ pc' = "extract_article_data"
    /\ returned' = Append(returned, "identify_articles_to_scrape")
    /\ article_todo' = articles_to_scrape
    /\ UNCHANGED <<site, error, search_idx, pages_to_scrape, page_todo, articles_to_scrape,
                   article_titles, emitted, article_data, file, metadata_field,
                   article_metadata>>

NextArticles ==
    \/ ListingPageSkipped
    \/ ListingPageScanned
    \/ ListingPageBroken
    \/ ArticlesReturn

\* the listing pages identify_articles_to_scrape is called with
ListingUrls == {teaching_k12_search_url, PageUrl(k12_query \o "&page=1")}

\* the state at the first statement of identify_articles_to_scrape(page_urls)
InitArticles ==
    \E page_urls \in SUBSET ListingUrls :
        \E lp \in [page_urls -> ListingResponses] :
            /\ search_pages = <<>>
            /\ listing_pages = lp
            /\ article_pages = <<>>
            /\ pc = "identify_articles_to_scrape"
            /\ error = "none"
            /\ returned = <<"identify_pages_to_scrape">>
            /\ search_idx = Len(search_urls) + 1
            /\ pages_to_scrape = page_urls
            /\ page_todo = page_urls
            /\ articles_to_scrape = {}
            /\ article_titles = {}
            /\ emitted = {}
            /\ article_todo = {}
            /\ article_data = <<>>
            /\ file = NoFile
            /\ metadata_field = <<>>
            /\ article_metadata = <<>>

\* identify_articles_to_scrape(page_urls) on every set of listing pages
SpecArticles == InitArticles /\ [][NextArticles]_vars

-----------------------------------------------------------------------------
(* Python dicts: insertion-ordered, a sequence of <<key, value>> pairs *)

HasKey(d, k) == \E i \in 1..Len(d) : d[i][1] = k

DictGet(d, k) == d[CHOOSE i \in 1..Len(d) : d[i][1] = k][2]

DictKeys(d) == [i \in 1..Len(d) |-> d[i][1]]

\* an assignment that rebinds the dict instead of updating it
DictSetFresh(d, k, v) == <<<<k, v>>>>

\* d[k] = v: an existing key keeps its position, a new key goes last
DictSet(d, k, v) ==
    IF HasKey(d, k)
    THEN [i \in 1..Len(d) |-> IF d[i][1] = k THEN <<k, v>> ELSE d[i]]
    ELSE Append(d, <<k, v>>)

-----------------------------------------------------------------------------
(* extract_metadata_field *)

\* A field container div.field:
\*   label   text of its div.field__label, NoElem when it has none
\*   items   texts of its div.field__item elements, in document order
\*   para    text of a p element in front of all items, NoElem when none
\*   href    href of its first a[href], NoElem when it has none
\*   anchor  visible text of that anchor
Field(label, items, para, href, anchor) ==
    [label |-> label, items |-> items, para |-> para, href |-> href, anchor |-> anchor]

\* metadata_field.select_one("div.field__item, p"): first match of either
FirstItemOrP(f) ==
    IF f.para # NoElem THEN f.para
    ELSE IF f.items # <<>> THEN f.items[1]
    ELSE NoElem

\* item.get_text().strip(): every kind of whitespace goes
ItemValueStripAll(item) == Strip(item, Whitespace)

\* item_value = item.get_text().strip("\n")
ItemValue(item) == Strip(item, {"\n"})

\* the for loop over field_items: item_values = item_values + item_value
RECURSIVE ItemValues(_)
ItemValues(field_items) ==
    IF field_items = <<>> THEN ""
    ELSE ItemValue(Head(field_items)) \o ItemValues(Tail(field_items))

\* publishing_link.get_text(): the visible text
LinkValueAnchorText(f) == f.anchor

\* publishing_link = metadata_field.select_one("a[href]"); publishing_link["href"]
LinkValue(f) == f.href

\* field_name = field_name_html.get_text(strip = True)
FieldName(f) == GetTextStripped(f.label)

\* the exception a call on field f raises, "none" when it returns
FieldError(f) ==
    IF f.label = NoElem /\ FirstItemOrP(f) = NoElem
    THEN "AttributeError: 'NoneType' object has no attribute 'get_text'"
    ELSE IF f.label # NoElem /\ FieldName(f) = "Link" /\ f.href = NoElem
    THEN "TypeError: 'NoneType' object is not subscriptable"
    ELSE "none"

\* the dict a call that raises nothing returns
extract_metadata_field(f, d) ==
    IF f.label = NoElem
    THEN DictSet(d, "Abstract", GetTextStripped(FirstItemOrP(f)))
    ELSE IF FieldName(f) = "Link"
    THEN DictSet(d, "Link", LinkValue(f))
    ELSE DictSet(d, FieldName(f), ItemValues(f.items))

FieldFrame ==
    UNCHANGED <<site, returned, search_idx, pages_to_scrape, page_todo, articles_to_scrape,
                article_titles, emitted, article_todo, article_data, file, metadata_field>>

FieldParsed ==
    /\ pc = "extract_metadata_field"
    /\ FieldError(metadata_field) = "none"
    /\ article_metadata' = extract_metadata_field(metadata_field, article_metadata)
    /\ pc' = "field_returned"
    /\ UNCHANGED error
    /\ FieldFrame

FieldBroken ==
    /\ pc = "extract_metadata_field"
    /\ FieldError(metadata_field) # "none"
    /\ pc' = "crashed"
    /\ error' = FieldError(metadata_field)
    /\ UNCHANGED article_metadata
    /\ FieldFrame

NextField == FieldParsed \/ FieldBroken

FieldLabels == {NoElem, "Link", " Link\n", " Benefits\n", "Title", "Who age?"}

ItemTexts == {"A\n", "B\n", "\n A \n", "", "Read the paper"}

Fields ==
    {Field(l, i, p, a[1], a[2]) :
        l \in FieldLabels,
        i \in SeqsUpTo(ItemTexts, MaxItems),
        p \in {NoElem, " Summary text "},
        a \in {<<NoElem, NoElem>>, <<"/papers/x", "Read the paper">>}}

\* dicts a call can be handed: the record of an article built so far
Accumulated ==
    { <<<<"Title", "Paper A">>>>,
      <<<<"Title", "Paper A">>, <<"Benefits", "old">>>>,
      <<<<"Title", "Paper A">>, <<"Link", "/old">>, <<"Abstract", "old">>>> }

\* the state at the first statement of extract_metadata_field(field, dict)
InitField ==
    \E f \in Fields, d \in Accumulated :
        /\ search_pages = <<>>
        /\ listing_pages = <<>>
        /\ article_pages = <<>>
        /\ pc = "extract_metadata_field"
        /\ error = "none"
        /\ returned = <<>>
        /\ search_idx = 1
        /\ pages_to_scrape = {}
        /\ page_todo = {}
        /\ articles_to_scrape = {}
        /\ article_titles = {}
        /\ emitted = {}
        /\ article_todo = {}
        /\ article_data = <<>>
        /\ file = NoFile
        /\ metadata_field = f
        /\ article_metadata = d

\* extract_metadata_field on every field container
SpecField == InitField /\ [][NextField]_vars

-----------------------------------------------------------------------------
(* extract_article_data *)

AbstractField == Field(NoElem, <<>>, " Summary text ", NoElem, NoElem)
LinkField     == Field("Link", <<"Read the paper">>, NoElem, "/papers/x", "Read the paper")
TitleField    == Field("Title", <<"Other title\n">>, NoElem, NoElem, NoElem)
BenefitsField == Field(" Benefits\n", <<"A\n", "B\n">>, NoElem, NoElem, NoElem)
WhoAgeField   == Field("Who age?", <<"5-8">>, NoElem, NoElem, NoElem)
WhatAgeField  == Field("What age?", <<"9-12">>, NoElem, NoElem, NoElem)
EmptyField    == Field(NoElem, <<>>, NoElem, NoElem, NoElem)

PageFields == {AbstractField, LinkField, TitleField, BenefitsField, EmptyField}

\* An article page: the text of its h1 (NoElem when it has none), whether it
\* has a div.node__content, and the div.field elements inside that one.
ArticlePage(h1, has_node, node_content) ==
    [status_code |-> 200, h1 |-> h1, has_node |-> has_node, node_content |-> node_content]

ArticleResponses ==
    {NotFound, ArticlePage(NoElem, TRUE, <<>>), ArticlePage("Paper A", FALSE, <<>>)} \cup
    {ArticlePage(" Paper A\n", TRUE, l) : l \in SeqsUpTo(PageFields, MaxFields)}

\* the for loop over node_content, on [metadata, error]; it stops at the
\* first exception
RECURSIVE FoldFields(_, _)
FoldFields(node_content, d) ==
    IF node_content = <<>> THEN [metadata |-> d, error |-> "none"]
    ELSE IF FieldError(Head(node_content)) # "none"
    THEN [metadata |-> d, error |-> FieldError(Head(node_content))]
    ELSE FoldFields(Tail(node_content), extract_metadata_field(Head(node_content), d))

\* what a careless hoisting of the dict out of the loop would start from
CarriedMetadata ==
    IF article_data = <<>> THEN <<>> ELSE article_data[Len(article_data)]

\* article_metadata = {}
NewMetadata == <<>>

\* the body of the for loop over articles_to_scrape for a page that came with 200
ParseArticle(page) ==
    IF page.h1 = NoElem
    THEN [metadata |-> NewMetadata,
          error |-> "AttributeError: 'NoneType' object has no attribute 'get_text'"]
    ELSE IF ~page.has_node
    THEN [metadata |-> DictSet(NewMetadata, "Title", GetTextStripped(page.h1)),
          error |-> "AttributeError: 'NoneType' object has no attribute 'select'"]
    ELSE FoldFields(page.node_content,
                    DictSet(NewMetadata, "Title", GetTextStripped(page.h1)))

InExtractLoop == pc = "extract_article_data" /\ article_todo # {}

ExtractFrame ==
    UNCHANGED <<site, returned, search_idx, pages_to_scrape, page_todo, articles_to_scrape,
                article_titles, emitted, file, metadata_field, article_metadata>>

\* status_code != 200: warning, continue
ArticleSkipped ==
    \E article \in article_todo :
        /\ InExtractLoop
        /\ article_pages[article].status_code # 200
        /\ article_todo' = article_todo \ {article}
        /\ UNCHANGED <<pc, error, article_data>>
        /\ ExtractFrame

\* article_data.append(article_metadata)
ArticleExtracted ==
    \E article \in article_todo :
        /\ InExtractLoop
        /\ article_pages[article].status_code = 200
        /\ ParseArticle(article_pages[article]).error = "none"
        /\ article_todo' = article_todo \ {article}
        /\ article_data' = Append(article_data, ParseArticle(article_pages[article]).metadata)
        /\ UNCHANGED <<pc, error>>
        /\ ExtractFrame

\* a page without h1 or div.node__content, or a field that cannot be parsed
ArticleBroken ==
    \E article \in article_todo :
        /\ InExtractLoop
        /\ article_pages[article].status_code = 200
        /\ ParseArticle(article_pages[article]).error # "none"
        /\ article_todo' = article_todo \ {article}
        /\ pc' = "crashed"
        /\ error' = ParseArticle(article_pages[article]).error
        /\ UNCHANGED article_data
        /\ ExtractFrame

\* return article_data; main() hands it to write_data_to_csv
ExtractReturn ==
    /\ pc = "extract_article_data"
    /\ article_todo = {}
    /\ pc' = "write_data_to_csv"
    /\ returned' = Append(returned, "extract_article_data")
    /\ UNCHANGED <<site, error, search_idx, pages_to_scrape, page_todo, articles_to_scrape,
                   article_titles, emitted, article_todo, article_data, file,
                   metadata_field, article_metadata>>

NextExtract ==
    \/ ArticleSkipped
    \/ ArticleExtracted
    \/ ArticleBroken
    \/ ExtractReturn

\* the article URLs extract_article_data is called with
ArticleUrls == {repo_base_url \o "/genai/paper-a", repo_base_url \o "/genai/paper-b"}

\* the state at the first statement of extract_article_data(articles_to_scrape)
InitExtract ==
    \E urls \in SUBSET ArticleUrls :
        \E ap \in [urls -> ArticleResponses] :
            /\ search_pages = <<>>
            /\ listing_pages = <<>>
            /\ article_pages = ap
            /\ pc = "extract_article_data"
            /\ error = "none"
            /\ returned = <<"identify_pages_to_scrape", "identify_articles_to_scrape">>
            /\ search_idx = Len(search_urls) + 1
            /\ pages_to_scrape = {}
            /\ page_todo = {}
            /\ articles_to_scrape = urls
            /\ article_titles = {}
            /\ emitted = {}
            /\ article_todo = urls
            /\ article_data = <<>>
            /\ file = NoFile
            /\ metadata_field = <<>>
            /\ article_metadata = <<>>

\* extract_article_data(articles_to_scrape) on every set of article pages
SpecExtract == InitExtract /\ [][NextExtract]_vars

-----------------------------------------------------------------------------
(* write_data_to_csv *)

\* the characters of the titles, in code point order
Printable == " -0123456789?ABCDEFGHIJKLMNOPQRSTUVWXYZ_abcdefghijklmnopqrstuvwxyz"

CodePoint(c) == CHOOSE i \in 1..Len(Printable) : SubSeq(Printable, i, i) = c

\* a < b on Python strings
RECURSIVE StrLess(_, _)
StrLess(a, b) ==
    IF b = "" THEN FALSE
    ELSE IF a = "" THEN TRUE
    ELSE IF Head(a) = Head(b) THEN StrLess(Tail(a), Tail(b))
    ELSE CodePoint(Head(a)) < CodePoint(Head(b))

\* the keys of s that are not in seen, in order, each once
RECURSIVE NewKeys(_, _)
NewKeys(s, seen) ==
    IF s = <<>> THEN <<>>
    ELSE IF Head(s) \in seen THEN NewKeys(Tail(s), seen)
    ELSE <<Head(s)>> \o NewKeys(Tail(s), seen \cup {Head(s)})

\* pd.DataFrame(data).columns: the keys of the records in order of first appearance
RECURSIVE FrameColumns(_, _)
FrameColumns(data, columns) ==
    IF data = <<>> THEN columns
    ELSE FrameColumns(Tail(data), columns \o NewKeys(DictKeys(Head(data)), Range(columns)))

\* rename(columns = {"Who age?": "What age?"})
RenameColumn(column) == IF column = "Who age?" THEN "What age?" ELSE column

\* the cell to_csv writes: NaN, the value of a missing key, is written empty
Cell(record, column) == IF HasKey(record, column) THEN DictGet(record, column) ELSE ""

Row(record, columns) == [i \in 1..Len(columns) |-> Cell(record, columns[i])]

RowOrders(n) == {p \in [1..n -> 1..n] : \A i, j \in 1..n : p[i] = p[j] => i = j}

\* record a has to come in front of record b: its title is smaller, or b
\* has no title (NaN goes last)
TitleBefore(a, b) ==
    /\ HasKey(a, "Title")
    /\ HasKey(b, "Title") => StrLess(DictGet(a, "Title"), DictGet(b, "Title"))

\* sort_values(by = "Title", ascending = False)
DescendingOrders(data) ==
    {p \in RowOrders(Len(data)) :
        \A i, j \in 1..Len(data) : i < j => ~TitleBefore(data[p[i]], data[p[j]])}

\* sort_values(by = "Title"): the orders an ascending sort can leave the rows
\* in; the default sort is not stable, so equal titles come in any order
SortOrders(data) ==
    {p \in RowOrders(Len(data)) :
        \A i, j \in 1..Len(data) : i < j => ~TitleBefore(data[p[j]], data[p[i]])}

\* the table to_csv(data_out, index = False) writes for rows in order p
CsvTable(data, p) ==
    LET columns == FrameColumns(data, <<>>) IN
    [columns |-> [i \in 1..Len(columns) |-> RenameColumn(columns[i])],
     rows |-> [i \in 1..Len(data) |-> Row(data[p[i]], columns)],
     written |-> TRUE]

\* the call indented into the loop of extract_article_data
WriterCalledInLoop ==
    pc = "write_data_to_csv" \/ (pc = "extract_article_data" /\ article_data # <<>>)

\* main() calls write_data_to_csv once extract_article_data has returned
WriterCalled == pc = "write_data_to_csv"

\* sort_values needs a "Title" column: a record of the data holds the key
HasTitleColumn(data) == "Title" \in Range(FrameColumns(data, <<>>))

WriteFrame ==
    UNCHANGED <<site, search_idx, pages_to_scrape, page_todo, articles_to_scrape,
                article_titles, emitted, article_todo, article_data, metadata_field,
                article_metadata>>

\* DataFrame, rename, sort_values, to_csv: the file is written in this one step
WriteCsv ==
    /\ WriterCalled
    /\ HasTitleColumn(article_data)
    /\ \E p \in SortOrders(article_data) : file' = CsvTable(article_data, p)
    /\ pc' = "done"
    /\ returned' = Append(returned, "write_data_to_csv")
    /\ UNCHANGED error
    /\ WriteFrame

\* no record at all: the frame has no columns and sort_values raises KeyError
\* before to_csv is reached
WriteKeyError ==
    /\ WriterCalled
    /\ ~HasTitleColumn(article_data)
    /\ pc' = "crashed"
    /\ error' = "KeyError: 'Title'"
    /\ UNCHANGED <<returned, file>>
    /\ WriteFrame

NextWrite == WriteCsv \/ WriteKeyError

Records ==
    { <<<<"Title", "B">>, <<"Who age?", "5-8">>>>,
      <<<<"Title", "A">>, <<"Age", "9">>>>,
      <<<<"Title", "A">>, <<"What age?", "9-12">>, <<"Who age?", "5-8">>>>,
      <<<<"Title", "AB">>>>,
      <<<<"Title", "">>, <<"Abstract", "Summary text">>>>,
      <<<<"Title", "a">>, <<"Age", "">>, <<"Abstract", "B">>>> }

\* the state at the first statement of write_data_to_csv(data)
InitWrite ==
    \E data \in SeqsUpTo(Records, MaxRecords) :
        /\ search_pages = <<>>
        /\ listing_pages = <<>>
        /\ article_pages = <<>>
        /\ pc = "write_data_to_csv"
        /\ error = "none"
        /\ returned = <<"identify_pages_to_scrape", "identify_articles_to_scrape",
                        "extract_article_data">>
        /\ search_idx = Len(search_urls) + 1
        /\ pages_to_scrape = {}
        /\ page_todo = {}
        /\ articles_to_scrape = {}
        /\ article_titles = {}
        /\ emitted = {}
        /\ article_todo = {}
        /\ article_data = data
        /\ file = NoFile
        /\ metadata_field = <<>>
        /\ article_metadata = <<>>

\* write_data_to_csv(data) on every list of article records
SpecWrite == InitWrite /\ [][NextWrite]_vars

-----------------------------------------------------------------------------
(* main(search_urls) *)

Page1Url == PageUrl(k12_query \o "&page=1")

PaperA == repo_base_url \o "/genai/paper-a"
PaperACopy == repo_base_url \o "/genai/paper-a-copy"
PaperB == repo_base_url \o "/genai/paper-b"
PaperC == repo_base_url \o "/genai/paper-c"

\* the answers the site can give for each URL at each stage
SearchOptions ==
    (teaching_k12_search_url :>
        {NotFound,
         [status_code |-> 200, pagination_data |-> <<k12_query, k12_query \o "&page=1">>],
         [status_code |-> 200, pagination_data |-> <<k12_query \o "&page=1", NoElem>>]})
    @@ (impact_secondary_search_url :>
        {NotFound, [status_code |-> 200, pagination_data |-> <<>>]})

ListingOptions ==
    (teaching_k12_search_url :>
        {NotFound,
         [status_code |-> 200,
          articles_to_parse |-> <<Card("Paper A", "/genai/paper-a"),
                                  Card("Paper B", "/genai/paper-b")>>]})
    @@ (Page1Url :>
        {NotFound,
         [status_code |-> 200,
          articles_to_parse |-> <<Card(" Paper A\n", "/genai/paper-a-copy"),
                                  Card("Paper C", "/genai/paper-c")>>],
         [status_code |-> 200,
          articles_to_parse |-> <<Card("Paper C", "/genai/paper-c"),
                                  Card(NoElem, "/genai/paper-b")>>]})
    @@ (impact_secondary_search_url :>
        {NotFound,
         [status_code |-> 200,
          articles_to_parse |-> <<Card("Paper B", "/genai/paper-b")>>]})

ArticleOptions ==
    (PaperA :> {NotFound, ArticlePage("Paper A", TRUE, <<AbstractField, WhoAgeField>>)})
    @@ (PaperACopy :> {NotFound, ArticlePage("Paper A", TRUE, <<LinkField>>)})
    @@ (PaperB :>
        {NotFound, ArticlePage(" Paper B\n", TRUE, <<BenefitsField, WhatAgeField>>)})
    @@ (PaperC :> {NotFound, ArticlePage(NoElem, TRUE, <<>>)})

\* the sites that give every URL one of its answers
Sites(options) ==
    {f \in [DOMAIN options -> UNION {options[u] : u \in DOMAIN options}] :
        \A u \in DOMAIN options : f[u] \in options[u]}

Init ==
    \E sp \in Sites(SearchOptions), lp \in Sites(ListingOptions),
       ap \in Sites(ArticleOptions) : Start(sp, lp, ap)

Next ==
    \/ SearchPageSkipped
    \/ SearchPageSingle
    \/ SearchPagePaginated
    \/ SearchPageBroken
    \/ PagesReturn
    \/ ListingPageSkipped
    \/ ListingPageScanned
    \/ ListingPageBroken
    \/ ArticlesReturn
    \/ ArticleSkipped
    \/ ArticleExtracted
    \/ ArticleBroken
    \/ ExtractReturn
    \/ WriteCsv
    \/ WriteKeyError

\* a run of the script, for every combination of 200 and non-200 answers
Spec == Init /\ [][Next]_vars

-----------------------------------------------------------------------------
(* Claims about identify_pages_to_scrape, checked under SpecPages *)

PagesReturned == "identify_pages_to_scrape" \in Range(returned)

Seeds == Range(search_urls)

Paginated(s) ==
    search_pages[s].status_code = 200 /\ search_pages[s].pagination_data # <<>>

Unpaginated(s) ==
    search_pages[s].status_code = 200 /\ search_pages[s].pagination_data = <<>>

\* site base + "/genai/repository" + href, for every pagination link of seed s
ResolvedLinks(s) ==
    {"https://scale.stanford.edu" \o "/genai/repository" \o h :
        h \in Range(search_pages[s].pagination_data)}

\* what the page of seed s adds to the output
Contribution(s) ==
    IF search_pages[s].status_code # 200 THEN {}
    ELSE IF search_pages[s].pagination_data = <<>> THEN {s}
    ELSE ResolvedLinks(s)

\* C1 as stated: when identify_pages_to_scrape has returned, the resolved URLs
\* of the pagination links of every paginated seed are in the returned set,
\* the set is exactly those URLs when every seed is paginated, and a
\* paginated seed is never in the returned set.
C1_SeedNeverReturned ==
    PagesReturned =>
        /\ \A s \in Seeds : Paginated(s) =>
               ResolvedLinks(s) \subseteq pages_to_scrape /\ s \notin pages_to_scrape
        /\ (\A s \in Seeds : Paginated(s)) =>
               pages_to_scrape = UNION {ResolvedLinks(s) : s \in Seeds}

\* C1 amended: as above, but a paginated seed is in the returned set exactly
\* when some pagination link resolves to the seed URL itself.
C1_PaginatedSeeds ==
    PagesReturned =>
        /\ \A s \in Seeds : Paginated(s) =>
               /\ ResolvedLinks(s) \subseteq pages_to_scrape
               /\ s \in pages_to_scrape <=>
                      \E t \in Seeds : Paginated(t) /\ s \in ResolvedLinks(t)
        /\ (\A s \in Seeds : Paginated(s)) =>
               pages_to_scrape = UNION {ResolvedLinks(s) : s \in Seeds}

\* a paginated seed whose links hold a duplicate and resolve to the seed
C1_Witness ==
    /\ PagesReturned
    /\ \E s \in Seeds :
           /\ Paginated(s)
           /\ Len(search_pages[s].pagination_data) > Cardinality(ResolvedLinks(s))
           /\ s \in pages_to_scrape

\* C2 as stated: when identify_pages_to_scrape has returned, the returned set
\* is the singleton {s} for every seed s that answered 200 without pagination.
C2_OutputIsSingleton ==
    PagesReturned =>
        \A s \in Seeds : Unpaginated(s) => pages_to_scrape = {s}

\* C2 amended: a seed that answered 200 without pagination is in the returned
\* set, and everything else in the set is what the other seeds add; the set
\* is the singleton {s} when the other seeds add nothing.
C2_UnpaginatedSeed ==
    PagesReturned =>
        \A s \in Seeds : Unpaginated(s) =>
            /\ s \in pages_to_scrape
            /\ pages_to_scrape \ {s} = UNION {Contribution(t) : t \in Seeds \ {s}} \ {s}

\* the only seed that answers 200 has no pagination
C2_Witness ==
    /\ PagesReturned
    /\ \E s \in Seeds :
           /\ Unpaginated(s)
           /\ \A t \in Seeds \ {s} : search_pages[t].status_code # 200
           /\ pages_to_scrape = {s}

-----------------------------------------------------------------------------
(* Claims about identify_articles_to_scrape, checked under SpecArticles *)

VisitedListings ==
    {u \in pages_to_scrape \ page_todo : listing_pages[u].status_code = 200}

CardsOn(u) == Range(listing_pages[u].articles_to_parse)

CardsSeen == UNION {CardsOn(u) : u \in VisitedListings}

\* the title texts of the cards on the listing pages visited so far
TitlesSeen == {Strip(c.title, {" ", "\n", "\t"}) : c \in CardsSeen}

\* C3: at every point of identify_articles_to_scrape, no two entries of the
\* article-URL set came from cards with identical title text, on one listing
\* page or on several, in whatever order the pages are visited; every entry
\* came from a card of a visited page, and the set holds at most as many URLs
\* as there are distinct titles seen.
C3_NoDuplicateTitles ==
    /\ articles_to_scrape = {e[2] : e \in emitted}
    /\ \A e1, e2 \in emitted : e1[1] = e2[1] => e1[2] = e2[2]
    /\ \A e \in emitted :
           \E c \in CardsSeen :
               /\ Strip(c.title, {" ", "\n", "\t"}) = e[1]
               /\ "https://scale.stanford.edu" \o c.href = e[2]
    /\ Cardinality(articles_to_scrape) <= Cardinality(article_titles)
    /\ pc # "crashed" => article_titles = TitlesSeen

\* two cards with one title and two URLs, on two listing pages, gave one entry
C3_Witness ==
    /\ pc = "extract_article_data"
    /\ Cardinality(articles_to_scrape) = 1
    /\ \E u1, u2 \in VisitedListings :
           /\ u1 # u2
           /\ \E c1 \in CardsOn(u1), c2 \in CardsOn(u2) :
                  /\ Strip(c1.title, {" ", "\n", "\t"}) = Strip(c2.title, {" ", "\n", "\t"})
                  /\ c1.href # c2.href

-----------------------------------------------------------------------------
(* Claims about extract_metadata_field, checked under SpecField *)

\* s without its leading and trailing newline characters
TrimNewlines(s) ==
    LET keep == {i \in 1..Len(s) : SubSeq(s, i, i) # "\n"} IN
    IF keep = {} THEN ""
    ELSE SubSeq(s, CHOOSE i \in keep : \A j \in keep : i <= j,
                   CHOOSE i \in keep : \A j \in keep : j <= i)

\* s without its leading and trailing blanks, tabs and newlines
TrimBlanks(s) ==
    LET keep == {i \in 1..Len(s) : SubSeq(s, i, i) \notin {" ", "\n", "\t"}} IN
    IF keep = {} THEN ""
    ELSE SubSeq(s, CHOOSE i \in keep : \A j \in keep : i <= j,
                   CHOOSE i \in keep : \A j \in keep : j <= i)

RECURSIVE Concat(_)
Concat(texts) == IF texts = <<>> THEN "" ELSE Head(texts) \o Concat(Tail(texts))

Labelled(f) == f.label # NoElem

\* C8: after extract_metadata_field on a labelled field whose label is not
\* "Link", the value under the label is the concatenation, in document order
\* and without separator, of the item texts, each without its leading and
\* trailing newline characters and otherwise untouched.
C8_ItemsConcatenated ==
    (/\ pc = "field_returned"
     /\ Labelled(metadata_field)
     /\ TrimBlanks(metadata_field.label) # "Link") =>
        /\ HasKey(article_metadata, TrimBlanks(metadata_field.label))
        /\ DictGet(article_metadata, TrimBlanks(metadata_field.label)) =
               Concat([i \in 1..Len(metadata_field.items) |->
                          TrimNewlines(metadata_field.items[i])])

\* the items "A\n" and "B\n" give "AB", and an item keeps its blanks
C8_Witness ==
    /\ pc = "field_returned"
    /\ TrimBlanks(metadata_field.label) = "Benefits"
    /\ \/ /\ metadata_field.items = <<"A\n", "B\n">>
          /\ DictGet(article_metadata, "Benefits") = "AB"
       \/ /\ metadata_field.items = <<"\n A \n", "B\n">>
          /\ DictGet(article_metadata, "Benefits") = " A B"

\* C9: after extract_metadata_field on a field whose label is "Link", the
\* value under "Link" is the href attribute of the field's anchor, however
\* many items the field has and whatever the anchor and the items show.
C9_LinkIsHref ==
    (/\ pc = "field_returned"
     /\ Labelled(metadata_field)
     /\ TrimBlanks(metadata_field.label) = "Link") =>
        /\ HasKey(article_metadata, "Link")
        /\ DictGet(article_metadata, "Link") = metadata_field.href

\* a Link field with two items whose anchor text and item text are not the href
C9_Witness ==
    /\ pc = "field_returned"
    /\ metadata_field.label = "Link"
    /\ Len(metadata_field.items) = 2
    /\ metadata_field.anchor = "Read the paper"
    /\ metadata_field.items[1] = "Read the paper"
    /\ DictGet(article_metadata, "Link") = "/papers/x"

-----------------------------------------------------------------------------
(* Claims about extract_article_data, checked under SpecExtract *)

ExtractReturned == "extract_article_data" \in Range(returned)

KeySet(record) == {record[i][1] : i \in 1..Len(record)}

OkArticles == {u \in articles_to_scrape : article_pages[u].status_code = 200}

FieldsOn(u) == Range(article_pages[u].node_content)

\* the texts of the label elements on the page of article u
LabelsOn(u) == {TrimBlanks(f.label) : f \in {g \in FieldsOn(u) : Labelled(g)}}

\* "Abstract" when the page of article u has a field without label
AbstractOn(u) == IF \E f \in FieldsOn(u) : ~Labelled(f) THEN {"Abstract"} ELSE {}

\* an assignment of the records to distinct articles that answered 200
Origins == {o \in [1..Len(article_data) -> OkArticles] :
               \A i, j \in 1..Len(article_data) : o[i] = o[j] => i = j}

\* C7: every record extract_article_data has built holds the key "Title",
\* whatever fields were folded into it.
C7_TitleAlwaysPresent ==
    \A i \in 1..Len(article_data) : \E j \in 1..Len(article_data[i]) :
        article_data[i][j][1] = "Title"

\* a returned record into which an unlabelled field, a "Link" field or a
\* field labelled "Title" was folded
C7_Witness ==
    /\ ExtractReturned
    /\ \E i \in 1..Len(article_data) :
           /\ Len(article_data[i]) = 2
           /\ \/ DictGet(article_data[i], "Title") = "Other title"
              \/ HasKey(article_data[i], "Link")
              \/ HasKey(article_data[i], "Abstract")

\* C10 as stated: when extract_article_data has returned there is one record
\* per article that answered 200, and each record holds only "Title" and the
\* labels of the fields of its own article's page.
C10_OnlyTitleAndLabels ==
    ExtractReturned =>
        /\ Len(article_data) = Cardinality(OkArticles)
        /\ \E o \in Origins : \A i \in 1..Len(article_data) :
               KeySet(article_data[i]) = {"Title"} \cup LabelsOn(o[i])

\* C10 amended: as above, but a record also holds "Abstract" when its own
\* article's page has a field without label.
C10_OwnFieldsOnly ==
    ExtractReturned =>
        /\ Len(article_data) = Cardinality(OkArticles)
        /\ \E o \in Origins : \A i \in 1..Len(article_data) :
               KeySet(article_data[i]) = {"Title"} \cup LabelsOn(o[i]) \cup AbstractOn(o[i])

\* two articles answered 200 and their pages hold different fields
C10_Witness ==
    /\ ExtractReturned
    /\ Len(article_data) = 2
    /\ KeySet(article_data[1]) = {"Title", "Link", "Benefits"}
    /\ KeySet(article_data[2]) = {"Title", "Abstract"}

-----------------------------------------------------------------------------
(* Claims about write_data_to_csv, checked under SpecWrite *)

\* a <= b in lexicographic order: a is a prefix of b, or the first character
\* in which they differ is smaller in a
LexLeq(a, b) ==
    \/ Len(a) <= Len(b) /\ SubSeq(b, 1, Len(a)) = a
    \/ \E i \in 1..Len(a) :
           /\ i <= Len(b)
           /\ SubSeq(a, 1, i - 1) = SubSeq(b, 1, i - 1)
           /\ CodePoint(SubSeq(a, i, i)) < CodePoint(SubSeq(b, i, i))

AllKeys == UNION {KeySet(article_data[i]) : i \in 1..Len(article_data)}

\* the ways to put the union of the keys in a row
KeyOrders ==
    {k \in [1..Cardinality(AllKeys) -> AllKeys] :
        \A i, j \in 1..Cardinality(AllKeys) : k[i] = k[j] => i = j}

\* the ways to put the records in a row
RecordOrders ==
    {p \in [1..Len(article_data) -> 1..Len(article_data)] :
        \A i, j \in 1..Len(article_data) : p[i] = p[j] => i = j}

TitleColumn == CHOOSE j \in 1..Len(file.columns) : file.columns[j] = "Title"

\* C6: when write_data_to_csv has written a non-empty list of records, the
\* table has one row per record, its columns are the union of the keys of
\* the records with "Who age?" renamed to "What age?", a row holds the
\* values of its record and an empty cell for every key the record lacks, and
\* the rows are in ascending lexicographic order of "Title".
C6_TableOfRecords ==
    (pc = "done" /\ article_data # <<>>) =>
        /\ file.written
        /\ Len(file.rows) = Len(article_data)
        /\ \E k \in KeyOrders :
               /\ file.columns =
                      [j \in 1..Len(k) |-> IF k[j] = "Who age?" THEN "What age?" ELSE k[j]]
               /\ \E p \in RecordOrders : \A i \in 1..Len(article_data) :
                      file.rows[i] =
                          [j \in 1..Len(k) |->
                              IF k[j] \in KeySet(article_data[p[i]])
                              THEN DictGet(article_data[p[i]], k[j])
                              ELSE ""]
        /\ \A i \in 1..Len(file.rows) - 1 :
               LexLeq(file.rows[i][TitleColumn], file.rows[i + 1][TitleColumn])

\* the records {Title: B, Who age?: 5-8} and {Title: A, Age: 9} are written
\* as columns Title, What age?, Age and rows A, B
C6_Witness ==
    /\ pc = "done"
    /\ article_data = << <<<<"Title", "B">>, <<"Who age?", "5-8">>>>,
                         <<<<"Title", "A">>, <<"Age", "9">>>> >>
    /\ file.columns = <<"Title", "What age?", "Age">>
    /\ file.rows = << <<"A", "", "9">>, <<"B", "5-8", "">> >>

-----------------------------------------------------------------------------
(* Claims about main, checked under Spec *)

\* a page that answered 200 and does not have the markup the scraper expects
BrokenSearchPage(r) ==
    r.status_code = 200 /\ NoElem \in Range(r.pagination_data)

BrokenListingPage(r) ==
    /\ r.status_code = 200
    /\ \E c \in Range(r.articles_to_parse) : c.title = NoElem \/ c.href = NoElem

BrokenArticlePage(r) ==
    /\ r.status_code = 200
    /\ \/ r.h1 = NoElem
       \/ ~r.has_node
       \/ \E f \in Range(r.node_content) :
              \/ ~Labelled(f) /\ f.para = NoElem /\ f.items = <<>>
              \/ Labelled(f) /\ TrimBlanks(f.label) = "Link" /\ f.href = NoElem

SomePageBroken ==
    \/ \E u \in DOMAIN search_pages : BrokenSearchPage(search_pages[u])
    \/ \E u \in DOMAIN listing_pages : BrokenListingPage(listing_pages[u])
    \/ \E u \in DOMAIN article_pages : BrokenArticlePage(article_pages[u])

\* C4: a non-200 answer is never fatal. A URL that answers non-200 adds
\* nothing to the output of its stage, and whatever the combination of 200
\* and non-200 answers, the run does not end in an exception unless a page
\* that answered 200 lacks the expected markup: it goes on to the writer.
C4_Non200NeverFatal ==
    /\ pages_to_scrape \subseteq UNION {Contribution(s) : s \in Seeds}
    /\ \A e \in emitted : \E c \in CardsSeen :
           "https://scale.stanford.edu" \o c.href = e[2]
    /\ Len(article_data) <=
           Cardinality({u \in articles_to_scrape \ article_todo :
                           article_pages[u].status_code = 200})
    /\ pc = "crashed" => SomePageBroken

AllReturned ==
    <<"identify_pages_to_scrape", "identify_articles_to_scrape", "extract_article_data",
      "write_data_to_csv">>

\* C5: the output file is written in exactly one step, the last one of a run
\* that completes, after identify_pages_to_scrape, identify_articles_to_scrape
\* and extract_article_data have returned in that order; in every state
\* before that step, and in every state of a run that crashes, the run has
\* written nothing.
C5_FileWrittenLast ==
    /\ [](file.written => (pc = "done" /\ returned = AllReturned))
    /\ [](~file.written => file = NoFile)
    /\ [][file' # file =>
              /\ ~file.written /\ file'.written
              /\ pc = "write_data_to_csv" /\ pc' = "done"
              /\ returned = SubSeq(AllReturned, 1, 3)
              /\ page_todo = {} /\ article_todo = {}]_vars

\* a run that completed and wrote two rows or more
C5_Witness ==
    /\ pc = "done"
    /\ file.written
    /\ Len(file.rows) >= 2

=============================================================================
